---------------------------- MODULE Spec2Model ----------------------------
(***************************************************************************)
(* Rankine earth pressure calculator (src/app.py).                         *)
(*                                                                         *)
(* rankine_earth_pressures works on Python floats, that is IEEE-754        *)
(* binary64 numbers.  TLC's integers are 32 bits wide, so a binary64       *)
(* significand (53 bits) is kept as a little-endian sequence of 15-bit     *)
(* limbs ("Big"), and the float operations the function uses (+, -, /,     *)
(* format to 4 decimals) are computed exactly and then rounded to nearest, *)
(* ties to even, as the hardware does.                                     *)
(***************************************************************************)
EXTENDS Integers, Sequences, FiniteSets

(***************************************************************************)
(* Natural numbers of any size: <<l1, ..., ln>> is the sum of              *)
(* l_i * LimbBase^(i-1); the last limb is never 0 and <<>> is zero.        *)
(***************************************************************************)
LimbBase == 2 ^ 15

RECURSIVE NatBitLen(_)
NatBitLen(n) == IF n = 0 THEN 0 ELSE 1 + NatBitLen(n \div 2)

LimbBits == NatBitLen(LimbBase) - 1

\* F(v), with v evaluated once, before F is.
Apply(F(_), v) == CHOOSE r \in {F(w) : w \in {v}} : TRUE

Limb(x, i) == IF i <= Len(x) THEN x[i] ELSE 0

RECURSIVE BigNorm(_)
BigNorm(x) ==
  IF x = <<>> THEN x
  ELSE IF x[Len(x)] = 0 THEN BigNorm(SubSeq(x, 1, Len(x) - 1))
  ELSE x

RECURSIVE NatToBig(_)
NatToBig(n) == IF n = 0 THEN <<>> ELSE <<n % LimbBase>> \o NatToBig(n \div LimbBase)

\* -1, 0, 1 as x < y, x = y, x > y; i is the limb compared, from the top down.
RECURSIVE BigCmpFrom(_, _, _)
BigCmpFrom(x, y, i) ==
  IF i = 0 THEN 0
  ELSE IF x[i] < y[i] THEN -1
  ELSE IF x[i] > y[i] THEN 1
  ELSE BigCmpFrom(x, y, i - 1)

BigCmp(x, y) ==
  IF Len(x) < Len(y) THEN -1
  ELSE IF Len(x) > Len(y) THEN 1
  ELSE BigCmpFrom(x, y, Len(x))

RECURSIVE BigAddFrom(_, _, _, _)
BigAddFrom(x, y, i, c) ==
  IF i > Len(x) /\ i > Len(y)
  THEN (IF c = 0 THEN <<>> ELSE <<c>>)
  ELSE LET t == Limb(x, i) + Limb(y, i) + c
       IN  <<t % LimbBase>> \o BigAddFrom(x, y, i + 1, t \div LimbBase)

BigAdd(x, y) == BigAddFrom(x, y, 1, 0)

\* x - y for x >= y; b is the borrow.
RECURSIVE BigSubFrom(_, _, _, _)
BigSubFrom(x, y, i, b) ==
  IF i > Len(x) THEN <<>>
  ELSE LET t == x[i] - Limb(y, i) - b
       IN  IF t < 0 THEN <<t + LimbBase>> \o BigSubFrom(x, y, i + 1, 1)
           ELSE <<t>> \o BigSubFrom(x, y, i + 1, 0)

BigSub(x, y) == BigNorm(BigSubFrom(x, y, 1, 0))

\* x * k for 0 <= k <= LimbBase.
RECURSIVE BigMulSmallFrom(_, _, _, _)
BigMulSmallFrom(x, k, i, c) ==
  IF i > Len(x)
  THEN (IF c = 0 THEN <<>> ELSE <<c>>)
  ELSE LET t == x[i] * k + c
       IN  <<t % LimbBase>> \o BigMulSmallFrom(x, k, i + 1, t \div LimbBase)

BigMulSmall(x, k) == BigNorm(BigMulSmallFrom(x, k, 1, 0))

RECURSIVE BigMulFrom(_, _, _)
BigMulFrom(x, y, i) ==
  IF i > Len(y) THEN <<>>
  ELSE BigAdd([j \in 1..(i - 1) |-> 0] \o BigMulSmallFrom(x, y[i], 1, 0),
              BigMulFrom(x, y, i + 1))

BigMul(x, y) == BigNorm(BigMulFrom(x, y, 1))

\* x * 2^n
BigShl(x, n) ==
  IF x = <<>> THEN x
  ELSE [j \in 1..(n \div LimbBits) |-> 0] \o BigMulSmall(x, 2 ^ (n % LimbBits))

\* floor(x / 2^n)
BigShr(x, n) ==
  LET d == n \div LimbBits
      r == n % LimbBits
      lo == 2 ^ r
      hi == 2 ^ (LimbBits - r)
  IN  IF d >= Len(x) THEN <<>>
      ELSE BigNorm([j \in 1..(Len(x) - d) |->
                      (x[j + d] \div lo) + (Limb(x, j + d + 1) % lo) * hi])

BigBitLen(x) ==
  IF x = <<>> THEN 0 ELSE LimbBits * (Len(x) - 1) + NatBitLen(x[Len(x)])

BigPow2(n) == BigShl(<<1>>, n)

BigIsOdd(x) == x # <<>> /\ x[1] % 2 = 1

\* The quotient digit of r by y, for r < y * LimbBase and the top limb of y
\* at least LimbBase / 2: q is an estimate that is not below it, lowered until
\* y * q fits in r.
RECURSIVE BigDigitFrom(_, _, _)
BigDigitFrom(r, y, q) ==
  IF BigCmp(BigMulSmall(y, q), r) > 0 THEN BigDigitFrom(r, y, q - 1) ELSE q

BigDigit(r, y) ==
  IF Len(r) < Len(y) THEN 0
  ELSE LET top == IF Len(r) > Len(y)
                  THEN r[Len(r)] * LimbBase + r[Len(r) - 1]
                  ELSE r[Len(r)]
           est == top \div y[Len(y)]
       IN  BigDigitFrom(r, y, IF est >= LimbBase THEN LimbBase - 1 ELSE est)

\* Long division of x by y, a limb of x at a step, from limb i down: qr is
\* <<quotient, remainder>> of the limbs above i.
RECURSIVE BigDivModFrom(_, _, _, _)
BigDivModFrom(x, y, i, qr) ==
  IF i = 0 THEN qr
  ELSE Apply(LAMBDA r :
         Apply(LAMBDA d :
           Apply(LAMBDA nxt : BigDivModFrom(x, y, i - 1, nxt),
                 <<BigNorm(<<d>> \o qr[1]), BigSub(r, BigMulSmall(y, d))>>),
           BigDigit(r, y)),
         BigNorm(<<x[i]>> \o qr[2]))

\* <<floor(x / y), x mod y>> for y > 0: both are shifted left until the top
\* limb of y has its highest bit set, which leaves the quotient as it is.
BigDivMod(x, y) ==
  Apply(LAMBDA sh :
    Apply(LAMBDA xs :
      Apply(LAMBDA ys :
        Apply(LAMBDA qr : <<qr[1], BigShr(qr[2], sh)>>,
              BigDivModFrom(xs, ys, Len(xs), <<<<>>, <<>>>>)),
        BigShl(y, sh)),
      BigShl(x, sh)),
    LimbBits - NatBitLen(y[Len(y)]))

RECURSIVE BigPow10(_)
BigPow10(k) == IF k = 0 THEN <<1>> ELSE BigMulSmall(BigPow10(k - 1), 10)

(***************************************************************************)
(* Python floats (binary64).  A float is (-1)^sign * man * 2^exp with man  *)
(* a Big of exactly MantBits bits, or zero (man = <<>>, exp = 0).  All     *)
(* values met here are far from the overflow and subnormal ranges, so the  *)
(* exponent is left unbounded.                                             *)
(***************************************************************************)
MantBits == 53

Dbl(s, m, e) == [sign |-> s, man |-> m, exp |-> e]

FZero == Dbl(0, <<>>, 0)

FOne == Dbl(0, BigPow2(MantBits - 1), 1 - MantBits)

FIsZero(x) == x.man = <<>>

FNeg(x) == IF FIsZero(x) THEN x ELSE Dbl(1 - x.sign, x.man, x.exp)

\* The float nearest to (-1)^s * (m + f) * 2^e, ties to even, where m is a Big
\* and 0 <= f < 1 is a discarded fraction known only as zero (sticky = FALSE)
\* or non-zero (sticky = TRUE); a sticky m has more than MantBits bits.
FRound(s, m, e, sticky) ==
  LET n == BigBitLen(m)
  IN  IF m = <<>> THEN FZero
      ELSE IF n <= MantBits THEN Dbl(s, BigShl(m, MantBits - n), e - (MantBits - n))
      ELSE LET sh   == n - MantBits
               q    == BigShr(m, sh)
               r    == BigSub(m, BigShl(q, sh))
               c    == BigCmp(r, BigPow2(sh - 1))
               up   == c > 0 \/ (c = 0 /\ (sticky \/ BigIsOdd(q)))
               q1   == IF up THEN BigAdd(q, <<1>>) ELSE q
           IN  IF BigBitLen(q1) > MantBits
               THEN Dbl(s, BigShr(q1, 1), e + sh + 1)
               ELSE Dbl(s, q1, e + sh)

\* Exact arithmetic on numbers (-1)^sign * man * 2^exp, man any Big: no
\* rounding.  Every float is such a number.
XAdd(x, y) ==
  IF x.man = <<>> THEN y
  ELSE IF y.man = <<>> THEN x
  ELSE LET e  == IF x.exp < y.exp THEN x.exp ELSE y.exp
           mx == BigShl(x.man, x.exp - e)
           my == BigShl(y.man, y.exp - e)
           c  == BigCmp(mx, my)
       IN  IF x.sign = y.sign THEN Dbl(x.sign, BigAdd(mx, my), e)
           ELSE IF c = 0 THEN FZero
           ELSE IF c > 0 THEN Dbl(x.sign, BigSub(mx, my), e)
           ELSE Dbl(y.sign, BigSub(my, mx), e)

XSub(x, y) == XAdd(x, FNeg(y))

XMul(x, y) ==
  IF x.man = <<>> \/ y.man = <<>> THEN FZero
  ELSE Dbl((x.sign + y.sign) % 2, BigMul(x.man, y.man), x.exp + y.exp)

XAbs(x) == Dbl(0, x.man, x.exp)

\* -1, 0, 1 as x < y, x = y, x > y
XCmp(x, y) ==
  Apply(LAMBDA d : IF d.man = <<>> THEN 0 ELSE IF d.sign = 1 THEN -1 ELSE 1,
        XSub(x, y))

\* x + y
FAdd(x, y) ==
  Apply(LAMBDA v : FRound(v.sign, v.man, v.exp, FALSE), XAdd(x, y))

\* x - y
FSub(x, y) == FAdd(x, FNeg(y))

\* x / y for y # 0: the quotient of the significands is taken to MantBits + 2
\* bits or more, the remainder is the sticky fraction.
FDiv(x, y) ==
  IF FIsZero(x) THEN FZero
  ELSE Apply(LAMBDA qr : FRound((x.sign + y.sign) % 2, qr[1],
                                  x.exp - y.exp - (MantBits + 2), qr[2] # <<>>),
             BigDivMod(BigShl(x.man, MantBits + 2), y.man))

\* The text of f"{x:.4f}" for x >= 0, as the number of ten-thousandths it
\* shows ("0.3333" is 3333, "1.0000" is 10000): x * 10^4 rounded to the
\* nearest integer, ties to even, as Python's correctly rounded formatting.
Format4f(x) ==
  IF FIsZero(x) THEN <<>>
  ELSE LET m  == BigMulSmall(x.man, 10000)
       IN  IF x.exp >= 0 THEN BigShl(m, x.exp)
           ELSE LET q == BigShr(m, -x.exp)
                    r == BigSub(m, BigShl(q, -x.exp))
                    c == BigCmp(r, BigPow2(-x.exp - 1))
                IN  IF c > 0 \/ (c = 0 /\ BigIsOdd(q)) THEN BigAdd(q, <<1>>) ELSE q

(***************************************************************************)
(* The C library behind math.radians and math.sin (src/app.py, lines 14,   *)
(* 17, 20, 23) is not part of the repository.  It is modelled by its       *)
(* values: for each angle of the table, given as the decimal n * 10^-k     *)
(* degrees, rad is the float math.radians returns for it and sin the       *)
(* float math.sin returns for rad, both as CPython computes them.  The     *)
(* rows are in increasing order of the angle.                              *)
(***************************************************************************)
LibmTable ==
  <<
    [n |-> -90, k |-> 0, rad |-> Dbl(1, <<11544, 10376, 2029, 201>>, -52),
     sin |-> Dbl(1, <<0, 0, 0, 128>>, -52)],
    [n |-> -899999999, k |-> 7, rad |-> Dbl(1, <<15600, 10136, 2029, 201>>, -52),
     sin |-> Dbl(1, <<0, 0, 0, 128>>, -52)],
    [n |-> -89999999, k |-> 6, rad |-> Dbl(1, <<19335, 7977, 2029, 201>>, -52),
     sin |-> Dbl(1, <<32767, 32767, 32767, 255>>, -53)],
    [n |-> -89, k |-> 0, rad |-> Dbl(1, <<25251, 29557, 27128, 198>>, -52),
     sin |-> Dbl(1, <<12170, 12267, 31490, 255>>, -53)],
    [n |-> -88, k |-> 0, rad |-> Dbl(1, <<6190, 15971, 19460, 196>>, -52),
     sin |-> Dbl(1, <<1383, 29054, 27657, 255>>, -53)],
    [n |-> -87, k |-> 0, rad |-> Dbl(1, <<19897, 2384, 11792, 194>>, -52),
     sin |-> Dbl(1, <<26141, 23077, 21271, 255>>, -53)],
    [n |-> -86, k |-> 0, rad |-> Dbl(1, <<837, 21566, 4123, 192>>, -52),
     sin |-> Dbl(1, <<32758, 25313, 12333, 255>>, -53)],
    [n |-> -85, k |-> 0, rad |-> Dbl(1, <<14544, 7979, 29223, 189>>, -52),
     sin |-> Dbl(1, <<5538, 26672, 846, 255>>, -53)],
    [n |-> -84, k |-> 0, rad |-> Dbl(1, <<28251, 27160, 21554, 187>>, -52),
     sin |-> Dbl(1, <<26566, 10736, 19582, 254>>, -53)],
    [n |-> -83, k |-> 0, rad |-> Dbl(1, <<9190, 13574, 13886, 185>>, -52),
     sin |-> Dbl(1, <<16011, 19268, 3008, 254>>, -53)],
    [n |-> -82, k |-> 0, rad |-> Dbl(1, <<22897, 32755, 6217, 183>>, -52),
     sin |-> Dbl(1, <<5242, 21089, 16666, 253>>, -53)],
    [n |-> -81, k |-> 0, rad |-> Dbl(1, <<3836, 19169, 31317, 180>>, -52),
     sin |-> Dbl(1, <<25692, 10335, 27794, 252>>, -53)],
    [n |-> -80, k |-> 0, rad |-> Dbl(1, <<17543, 5582, 23649, 178>>, -52),
     sin |-> Dbl(1, <<7191, 6402, 3630, 252>>, -53)],
    [n |-> -79, k |-> 0, rad |-> Dbl(1, <<31250, 24763, 15980, 176>>, -52),
     sin |-> Dbl(1, <<14018, 21105, 9717, 251>>, -53)],
    [n |-> -78, k |-> 0, rad |-> Dbl(1, <<12189, 11177, 8312, 174>>, -52),
     sin |-> Dbl(1, <<127, 25844, 13296, 250>>, -53)],
    [n |-> -77, k |-> 0, rad |-> Dbl(1, <<25897, 30358, 643, 172>>, -52),
     sin |-> Dbl(1, <<1807, 17053, 14376, 249>>, -53)],
    [n |-> -76, k |-> 0, rad |-> Dbl(1, <<6836, 16772, 25743, 169>>, -52),
     sin |-> Dbl(1, <<14885, 16115, 12966, 248>>, -53)],
    [n |-> -75, k |-> 0, rad |-> Dbl(1, <<20543, 3185, 18075, 167>>, -52),
     sin |-> Dbl(1, <<16149, 3729, 9077, 247>>, -53)],
    [n |-> -74, k |-> 0, rad |-> Dbl(1, <<1482, 22367, 10406, 165>>, -52),
     sin |-> Dbl(1, <<31616, 18108, 2719, 246>>, -53)],
    [n |-> -73, k |-> 0, rad |-> Dbl(1, <<15189, 8780, 2738, 163>>, -52),
     sin |-> Dbl(1, <<23327, 23799, 26673, 244>>, -53)],
    [n |-> -72, k |-> 0, rad |-> Dbl(1, <<28896, 27961, 27837, 160>>, -52),
     sin |-> Dbl(1, <<21759, 9864, 15416, 243>>, -53)],
    [n |-> -71, k |-> 0, rad |-> Dbl(1, <<9835, 14375, 20169, 158>>, -52),
     sin |-> Dbl(1, <<13514, 22525, 1728, 242>>, -53)],
    [n |-> -70, k |-> 0, rad |-> Dbl(1, <<23542, 788, 12501, 156>>, -52),
     sin |-> Dbl(1, <<11547, 1188, 18393, 240>>, -53)],
    [n |-> -69, k |-> 0, rad |-> Dbl(1, <<4481, 19970, 4832, 154>>, -52),
     sin |-> Dbl(1, <<14341, 7679, 32656, 238>>, -53)],
    [n |-> -68, k |-> 0, rad |-> Dbl(1, <<18189, 6383, 29932, 151>>, -52),
     sin |-> Dbl(1, <<19288, 29487, 11765, 237>>, -53)],
    [n |-> -67, k |-> 0, rad |-> Dbl(1, <<31896, 25564, 22263, 149>>, -52),
     sin |-> Dbl(1, <<26223, 12376, 21274, 235>>, -53)],
    [n |-> -66, k |-> 0, rad |-> Dbl(1, <<12835, 11978, 14595, 147>>, -52),
     sin |-> Dbl(1, <<32661, 24062, 28430, 233>>, -53)],
    [n |-> -65, k |-> 0, rad |-> Dbl(1, <<26542, 31159, 6926, 145>>, -52),
     sin |-> Dbl(1, <<22375, 24667, 484, 232>>, -53)],
    [n |-> -64, k |-> 0, rad |-> Dbl(1, <<7481, 17573, 32026, 142>>, -52),
     sin |-> Dbl(1, <<14538, 30380, 2990, 230>>, -53)],
    [n |-> -63, k |-> 0, rad |-> Dbl(1, <<21188, 3986, 24358, 140>>, -52),
     sin |-> Dbl(1, <<11372, 14970, 3200, 228>>, -53)],
    [n |-> -62, k |-> 0, rad |-> Dbl(1, <<2127, 23168, 16689, 138>>, -52),
     sin |-> Dbl(1, <<9991, 7898, 1133, 226>>, -53)],
    [n |-> -61, k |-> 0, rad |-> Dbl(1, <<15834, 9581, 9021, 136>>, -52),
     sin |-> Dbl(1, <<14790, 28582, 29577, 223>>, -53)],
    [n |-> -60, k |-> 0, rad |-> Dbl(1, <<29541, 28762, 1352, 134>>, -52),
     sin |-> Dbl(1, <<19626, 20656, 23019, 221>>, -53)],
    [n |-> -59, k |-> 0, rad |-> Dbl(1, <<10481, 15176, 26452, 131>>, -52),
     sin |-> Dbl(1, <<27358, 15597, 14248, 219>>, -53)],
    [n |-> -58, k |-> 0, rad |-> Dbl(1, <<24188, 1589, 18784, 129>>, -52),
     sin |-> Dbl(1, <<10565, 1435, 3287, 217>>, -53)],
    [n |-> -57, k |-> 0, rad |-> Dbl(1, <<10254, 8774, 22231, 254>>, -53),
     sin |-> Dbl(1, <<12252, 20828, 22926, 214>>, -53)],
    [n |-> -56, k |-> 0, rad |-> Dbl(1, <<4900, 14369, 6894, 250>>, -53),
     sin |-> Dbl(1, <<28325, 6993, 7655, 212>>, -53)],
    [n |-> -55, k |-> 0, rad |-> Dbl(1, <<32314, 19963, 24325, 245>>, -53),
     sin |-> Dbl(1, <<1863, 12843, 23033, 209>>, -53)],
    [n |-> -54, k |-> 0, rad |-> Dbl(1, <<26960, 25558, 8988, 241>>, -53),
     sin |-> Dbl(1, <<29864, 14127, 3550, 207>>, -53)],
    [n |-> -53, k |-> 0, rad |-> Dbl(1, <<21606, 31153, 26419, 236>>, -53),
     sin |-> Dbl(1, <<31252, 7492, 14768, 204>>, -53)],
    [n |-> -52, k |-> 0, rad |-> Dbl(1, <<16253, 3980, 11083, 232>>, -53),
     sin |-> Dbl(1, <<25554, 10216, 23945, 201>>, -53)],
    [n |-> -51, k |-> 0, rad |-> Dbl(1, <<10899, 9575, 28514, 227>>, -53),
     sin |-> Dbl(1, <<9000, 27179, 31108, 198>>, -53)],
    [n |-> -50, k |-> 0, rad |-> Dbl(1, <<5545, 15170, 13177, 223>>, -53),
     sin |-> Dbl(1, <<20537, 17822, 3518, 196>>, -53)],
    [n |-> -49, k |-> 0, rad |-> Dbl(1, <<191, 20765, 30608, 218>>, -53),
     sin |-> Dbl(1, <<7223, 26946, 6738, 193>>, -53)],
    [n |-> -48, k |-> 0, rad |-> Dbl(1, <<27606, 26359, 15271, 214>>, -53),
     sin |-> Dbl(1, <<16066, 20583, 8030, 190>>, -53)],
    [n |-> -47, k |-> 0, rad |-> Dbl(1, <<22252, 31954, 32702, 209>>, -53),
     sin |-> Dbl(1, <<27010, 16784, 7423, 187>>, -53)],
    [n |-> -46, k |-> 0, rad |-> Dbl(1, <<16898, 4781, 17366, 205>>, -53),
     sin |-> Dbl(1, <<19768, 19786, 4947, 184>>, -53)],
    [n |-> -45, k |-> 0, rad |-> Dbl(1, <<11544, 10376, 2029, 201>>, -53),
     sin |-> Dbl(1, <<15308, 19710, 633, 181>>, -53)],
    [n |-> -44, k |-> 0, rad |-> Dbl(1, <<6190, 15971, 19460, 196>>, -53),
     sin |-> Dbl(1, <<29456, 25024, 27280, 177>>, -53)],
    [n |-> -43, k |-> 0, rad |-> Dbl(1, <<837, 21566, 4123, 192>>, -53),
     sin |-> Dbl(1, <<7211, 29465, 19384, 174>>, -53)],
    [n |-> -42, k |-> 0, rad |-> Dbl(1, <<28251, 27160, 21554, 187>>, -53),
     sin |-> Dbl(1, <<3032, 11716, 9746, 171>>, -53)],
    [n |-> -41, k |-> 0, rad |-> Dbl(1, <<22897, 32755, 6217, 183>>, -53),
     sin |-> Dbl(1, <<20436, 624, 31166, 167>>, -53)],
    [n |-> -40, k |-> 0, rad |-> Dbl(1, <<17543, 5582, 23649, 178>>, -53),
     sin |-> Dbl(1, <<5660, 9336, 18141, 164>>, -53)],
    [n |-> -39, k |-> 0, rad |-> Dbl(1, <<12189, 11177, 8312, 174>>, -53),
     sin |-> Dbl(1, <<31421, 2192, 3474, 161>>, -53)],
    [n |-> -38, k |-> 0, rad |-> Dbl(1, <<6836, 16772, 25743, 169>>, -53),
     sin |-> Dbl(1, <<18745, 25467, 19966, 157>>, -53)],
    [n |-> -37, k |-> 0, rad |-> Dbl(1, <<1482, 22367, 10406, 165>>, -53),
     sin |-> Dbl(1, <<16054, 10411, 2118, 154>>, -53)],
    [n |-> -36, k |-> 0, rad |-> Dbl(1, <<28896, 27961, 27837, 160>>, -53),
     sin |-> Dbl(1, <<23134, 2282, 15500, 150>>, -53)],
    [n |-> -35, k |-> 0, rad |-> Dbl(1, <<23542, 788, 12501, 156>>, -53),
     sin |-> Dbl(1, <<18808, 28920, 27379, 146>>, -53)],
    [n |-> -34, k |-> 0, rad |-> Dbl(1, <<18189, 6383, 29932, 151>>, -53),
     sin |-> Dbl(1, <<32019, 2083, 5026, 143>>, -53)],
    [n |-> -33, k |-> 0, rad |-> Dbl(1, <<12835, 11978, 14595, 147>>, -53),
     sin |-> Dbl(1, <<30493, 12000, 14011, 139>>, -53)],
    [n |-> -32, k |-> 0, rad |-> Dbl(1, <<7481, 17573, 32026, 142>>, -53),
     sin |-> Dbl(1, <<23850, 32089, 21604, 135>>, -53)],
    [n |-> -31, k |-> 0, rad |-> Dbl(1, <<2127, 23168, 16689, 138>>, -53),
     sin |-> Dbl(1, <<24339, 16891, 27844, 131>>, -53)],
    [n |-> -30, k |-> 0, rad |-> Dbl(1, <<29541, 28762, 1352, 134>>, -53),
     sin |-> Dbl(1, <<32767, 32767, 32767, 255>>, -54)],
    [n |-> -29, k |-> 0, rad |-> Dbl(1, <<24188, 1589, 18784, 129>>, -53),
     sin |-> Dbl(1, <<8429, 23519, 7291, 248>>, -54)],
    [n |-> -28, k |-> 0, rad |-> Dbl(1, <<4900, 14369, 6894, 250>>, -54),
     sin |-> Dbl(1, <<20601, 26696, 12105, 240>>, -54)],
    [n |-> -27, k |-> 0, rad |-> Dbl(1, <<26960, 25558, 8988, 241>>, -54),
     sin |-> Dbl(1, <<24064, 22153, 14520, 232>>, -54)],
    [n |-> -26, k |-> 0, rad |-> Dbl(1, <<16253, 3980, 11083, 232>>, -54),
     sin |-> Dbl(1, <<1480, 13692, 14615, 224>>, -54)],
    [n |-> -25, k |-> 0, rad |-> Dbl(1, <<5545, 15170, 13177, 223>>, -54),
     sin |-> Dbl(1, <<6227, 28271, 12469, 216>>, -54)],
    [n |-> -24, k |-> 0, rad |-> Dbl(1, <<27606, 26359, 15271, 214>>, -54),
     sin |-> Dbl(1, <<6865, 16908, 8164, 208>>, -54)],
    [n |-> -23, k |-> 0, rad |-> Dbl(1, <<16898, 4781, 17366, 205>>, -54),
     sin |-> Dbl(1, <<32683, 17713, 1780, 200>>, -54)],
    [n |-> -22, k |-> 0, rad |-> Dbl(1, <<6190, 15971, 19460, 196>>, -54),
     sin |-> Dbl(1, <<5761, 24011, 26167, 191>>, -54)],
    [n |-> -21, k |-> 0, rad |-> Dbl(1, <<28251, 27160, 21554, 187>>, -54),
     sin |-> Dbl(1, <<21308, 16285, 15872, 183>>, -54)],
    [n |-> -20, k |-> 0, rad |-> Dbl(1, <<17543, 5582, 23649, 178>>, -54),
     sin |-> Dbl(1, <<3061, 26900, 3745, 175>>, -54)],
    [n |-> -19, k |-> 0, rad |-> Dbl(1, <<6836, 16772, 25743, 169>>, -54),
     sin |-> Dbl(1, <<19932, 8193, 22639, 166>>, -54)],
    [n |-> -18, k |-> 0, rad |-> Dbl(1, <<28896, 27961, 27837, 160>>, -54),
     sin |-> Dbl(1, <<26959, 28255, 7100, 158>>, -54)],
    [n |-> -17, k |-> 0, rad |-> Dbl(1, <<18189, 6383, 29932, 151>>, -54),
     sin |-> Dbl(1, <<21960, 7943, 22751, 149>>, -54)],
    [n |-> -16, k |-> 0, rad |-> Dbl(1, <<7481, 17573, 32026, 142>>, -54),
     sin |-> Dbl(1, <<3625, 14949, 4139, 141>>, -54)],
    [n |-> -15, k |-> 0, rad |-> Dbl(1, <<29541, 28762, 1352, 134>>, -54),
     sin |-> Dbl(1, <<1680, 806, 16887, 132>>, -54)],
    [n |-> -14, k |-> 0, rad |-> Dbl(1, <<4900, 14369, 6894, 250>>, -55),
     sin |-> Dbl(1, <<14621, 26057, 23855, 247>>, -55)],
    [n |-> -13, k |-> 0, rad |-> Dbl(1, <<16253, 3980, 11083, 232>>, -55),
     sin |-> Dbl(1, <<18037, 28059, 11464, 230>>, -55)],
    [n |-> -12, k |-> 0, rad |-> Dbl(1, <<27606, 26359, 15271, 214>>, -55),
     sin |-> Dbl(1, <<22774, 22660, 29542, 212>>, -55)],
    [n |-> -11, k |-> 0, rad |-> Dbl(1, <<6190, 15971, 19460, 196>>, -55),
     sin |-> Dbl(1, <<25167, 15084, 12727, 195>>, -55)],
    [n |-> -10, k |-> 0, rad |-> Dbl(1, <<17543, 5582, 23649, 178>>, -55),
     sin |-> Dbl(1, <<29577, 31766, 26729, 177>>, -55)],
    [n |-> -9, k |-> 0, rad |-> Dbl(1, <<28896, 27961, 27837, 160>>, -55),
     sin |-> Dbl(1, <<21365, 20304, 6189, 160>>, -55)],
    [n |-> -8, k |-> 0, rad |-> Dbl(1, <<7481, 17573, 32026, 142>>, -55),
     sin |-> Dbl(1, <<7705, 11547, 16818, 142>>, -55)],
    [n |-> -7, k |-> 0, rad |-> Dbl(1, <<4900, 14369, 6894, 250>>, -56),
     sin |-> Dbl(1, <<25299, 6302, 19281, 249>>, -56)],
    [n |-> -6, k |-> 0, rad |-> Dbl(1, <<27606, 26359, 15271, 214>>, -56),
     sin |-> Dbl(1, <<22380, 13944, 2434, 214>>, -56)],
    [n |-> -5, k |-> 0, rad |-> Dbl(1, <<17543, 5582, 23649, 178>>, -56),
     sin |-> Dbl(1, <<258, 29061, 16218, 178>>, -56)],
    [n |-> -4, k |-> 0, rad |-> Dbl(1, <<7481, 17573, 32026, 142>>, -56),
     sin |-> Dbl(1, <<20776, 23252, 28221, 142>>, -56)],
    [n |-> -3, k |-> 0, rad |-> Dbl(1, <<27606, 26359, 15271, 214>>, -57),
     sin |-> Dbl(1, <<18702, 4575, 12061, 214>>, -57)],
    [n |-> -2, k |-> 0, rad |-> Dbl(1, <<7481, 17573, 32026, 142>>, -57),
     sin |-> Dbl(1, <<23591, 5103, 31075, 142>>, -57)],
    [n |-> -1, k |-> 0, rad |-> Dbl(1, <<7481, 17573, 32026, 142>>, -58),
     sin |-> Dbl(1, <<23838, 22291, 31788, 142>>, -58)],
    [n |-> 0, k |-> 0, rad |-> Dbl(0, <<>>, 0),
     sin |-> Dbl(0, <<>>, 0)],
    [n |-> 1, k |-> 16, rad |-> Dbl(0, <<29693, 6321, 25643, 128>>, -111),
     sin |-> Dbl(0, <<29693, 6321, 25643, 128>>, -111)],
    [n |-> 1, k |-> 15, rad |-> Dbl(0, <<12541, 32478, 32053, 160>>, -108),
     sin |-> Dbl(0, <<12541, 32478, 32053, 160>>, -108)],
    [n |-> 3, k |-> 15, rad |-> Dbl(0, <<18810, 32333, 15312, 241>>, -107),
     sin |-> Dbl(0, <<18810, 32333, 15312, 241>>, -107)],
    [n |-> 1, k |-> 14, rad |-> Dbl(0, <<32059, 16021, 7299, 201>>, -105),
     sin |-> Dbl(0, <<32059, 16021, 7299, 201>>, -105)],
    [n |-> 1, k |-> 7, rad |-> Dbl(0, <<6114, 5535, 28712, 239>>, -82),
     sin |-> Dbl(0, <<6114, 5535, 28712, 239>>, -82)],
    [n |-> 1, k |-> 2, rad |-> Dbl(0, <<401, 21183, 361, 183>>, -65),
     sin |-> Dbl(0, <<11687, 20185, 361, 183>>, -65)],
    [n |-> 2, k |-> 2, rad |-> Dbl(0, <<401, 21183, 361, 183>>, -64),
     sin |-> Dbl(0, <<12778, 17192, 361, 183>>, -64)],
    [n |-> 25, k |-> 2, rad |-> Dbl(0, <<7481, 17573, 32026, 142>>, -60),
     sin |-> Dbl(0, <<5858, 21957, 32011, 142>>, -60)],
    [n |-> 5, k |-> 1, rad |-> Dbl(0, <<7481, 17573, 32026, 142>>, -59),
     sin |-> Dbl(0, <<19489, 2346, 31967, 142>>, -59)],
    [n |-> 1, k |-> 0, rad |-> Dbl(0, <<7481, 17573, 32026, 142>>, -58),
     sin |-> Dbl(0, <<23838, 22291, 31788, 142>>, -58)],
    [n |-> 15, k |-> 1, rad |-> Dbl(0, <<27606, 26359, 15271, 214>>, -58),
     sin |-> Dbl(0, <<19089, 1825, 14469, 214>>, -58)],
    [n |-> 2, k |-> 0, rad |-> Dbl(0, <<7481, 17573, 32026, 142>>, -57),
     sin |-> Dbl(0, <<23591, 5103, 31075, 142>>, -57)],
    [n |-> 3, k |-> 0, rad |-> Dbl(0, <<27606, 26359, 15271, 214>>, -57),
     sin |-> Dbl(0, <<18702, 4575, 12061, 214>>, -57)],
    [n |-> 4, k |-> 0, rad |-> Dbl(0, <<7481, 17573, 32026, 142>>, -56),
     sin |-> Dbl(0, <<20776, 23252, 28221, 142>>, -56)],
    [n |-> 5, k |-> 0, rad |-> Dbl(0, <<17543, 5582, 23649, 178>>, -56),
     sin |-> Dbl(0, <<258, 29061, 16218, 178>>, -56)],
    [n |-> 6, k |-> 0, rad |-> Dbl(0, <<27606, 26359, 15271, 214>>, -56),
     sin |-> Dbl(0, <<22380, 13944, 2434, 214>>, -56)],
    [n |-> 7, k |-> 0, rad |-> Dbl(0, <<4900, 14369, 6894, 250>>, -56),
     sin |-> Dbl(0, <<25299, 6302, 19281, 249>>, -56)],
    [n |-> 8, k |-> 0, rad |-> Dbl(0, <<7481, 17573, 32026, 142>>, -55),
     sin |-> Dbl(0, <<7705, 11547, 16818, 142>>, -55)],
    [n |-> 9, k |-> 0, rad |-> Dbl(0, <<28896, 27961, 27837, 160>>, -55),
     sin |-> Dbl(0, <<21365, 20304, 6189, 160>>, -55)],
    [n |-> 10, k |-> 0, rad |-> Dbl(0, <<17543, 5582, 23649, 178>>, -55),
     sin |-> Dbl(0, <<29577, 31766, 26729, 177>>, -55)],
    [n |-> 11, k |-> 0, rad |-> Dbl(0, <<6190, 15971, 19460, 196>>, -55),
     sin |-> Dbl(0, <<25167, 15084, 12727, 195>>, -55)],
    [n |-> 12, k |-> 0, rad |-> Dbl(0, <<27606, 26359, 15271, 214>>, -55),
     sin |-> Dbl(0, <<22774, 22660, 29542, 212>>, -55)],
    [n |-> 1234, k |-> 2, rad |-> Dbl(0, <<6051, 26615, 17779, 220>>, -55),
     sin |-> Dbl(0, <<12675, 18421, 27575, 218>>, -55)],
    [n |-> 125, k |-> 1, rad |-> Dbl(0, <<5545, 15170, 13177, 223>>, -55),
     sin |-> Dbl(0, <<9585, 10092, 20780, 221>>, -55)],
    [n |-> 13, k |-> 0, rad |-> Dbl(0, <<16253, 3980, 11083, 232>>, -55),
     sin |-> Dbl(0, <<18037, 28059, 11464, 230>>, -55)],
    [n |-> 14, k |-> 0, rad |-> Dbl(0, <<4900, 14369, 6894, 250>>, -55),
     sin |-> Dbl(0, <<14621, 26057, 23855, 247>>, -55)],
    [n |-> 15, k |-> 0, rad |-> Dbl(0, <<29541, 28762, 1352, 134>>, -54),
     sin |-> Dbl(0, <<1680, 806, 16887, 132>>, -54)],
    [n |-> 16, k |-> 0, rad |-> Dbl(0, <<7481, 17573, 32026, 142>>, -54),
     sin |-> Dbl(0, <<3625, 14949, 4139, 141>>, -54)],
    [n |-> 17, k |-> 0, rad |-> Dbl(0, <<18189, 6383, 29932, 151>>, -54),
     sin |-> Dbl(0, <<21960, 7943, 22751, 149>>, -54)],
    [n |-> 18, k |-> 0, rad |-> Dbl(0, <<28896, 27961, 27837, 160>>, -54),
     sin |-> Dbl(0, <<26959, 28255, 7100, 158>>, -54)],
    [n |-> 19, k |-> 0, rad |-> Dbl(0, <<6836, 16772, 25743, 169>>, -54),
     sin |-> Dbl(0, <<19932, 8193, 22639, 166>>, -54)],
    [n |-> 20, k |-> 0, rad |-> Dbl(0, <<17543, 5582, 23649, 178>>, -54),
     sin |-> Dbl(0, <<3061, 26900, 3745, 175>>, -54)],
    [n |-> 21, k |-> 0, rad |-> Dbl(0, <<28251, 27160, 21554, 187>>, -54),
     sin |-> Dbl(0, <<21308, 16285, 15872, 183>>, -54)],
    [n |-> 22, k |-> 0, rad |-> Dbl(0, <<6190, 15971, 19460, 196>>, -54),
     sin |-> Dbl(0, <<5761, 24011, 26167, 191>>, -54)],
    [n |-> 23, k |-> 0, rad |-> Dbl(0, <<16898, 4781, 17366, 205>>, -54),
     sin |-> Dbl(0, <<32683, 17713, 1780, 200>>, -54)],
    [n |-> 24, k |-> 0, rad |-> Dbl(0, <<27606, 26359, 15271, 214>>, -54),
     sin |-> Dbl(0, <<6865, 16908, 8164, 208>>, -54)],
    [n |-> 25, k |-> 0, rad |-> Dbl(0, <<5545, 15170, 13177, 223>>, -54),
     sin |-> Dbl(0, <<6227, 28271, 12469, 216>>, -54)],
    [n |-> 26, k |-> 0, rad |-> Dbl(0, <<16253, 3980, 11083, 232>>, -54),
     sin |-> Dbl(0, <<1480, 13692, 14615, 224>>, -54)],
    [n |-> 27, k |-> 0, rad |-> Dbl(0, <<26960, 25558, 8988, 241>>, -54),
     sin |-> Dbl(0, <<24064, 22153, 14520, 232>>, -54)],
    [n |-> 28, k |-> 0, rad |-> Dbl(0, <<4900, 14369, 6894, 250>>, -54),
     sin |-> Dbl(0, <<20601, 26696, 12105, 240>>, -54)],
    [n |-> 29, k |-> 0, rad |-> Dbl(0, <<24188, 1589, 18784, 129>>, -53),
     sin |-> Dbl(0, <<8429, 23519, 7291, 248>>, -54)],
    [n |-> 30, k |-> 0, rad |-> Dbl(0, <<29541, 28762, 1352, 134>>, -53),
     sin |-> Dbl(0, <<32767, 32767, 32767, 255>>, -54)],
    [n |-> 305, k |-> 1, rad |-> Dbl(0, <<15834, 9581, 9021, 136>>, -53),
     sin |-> Dbl(0, <<13845, 12184, 30468, 129>>, -53)],
    [n |-> 31, k |-> 0, rad |-> Dbl(0, <<2127, 23168, 16689, 138>>, -53),
     sin |-> Dbl(0, <<24339, 16891, 27844, 131>>, -53)],
    [n |-> 32, k |-> 0, rad |-> Dbl(0, <<7481, 17573, 32026, 142>>, -53),
     sin |-> Dbl(0, <<23850, 32089, 21604, 135>>, -53)],
    [n |-> 33, k |-> 0, rad |-> Dbl(0, <<12835, 11978, 14595, 147>>, -53),
     sin |-> Dbl(0, <<30493, 12000, 14011, 139>>, -53)],
    [n |-> 34, k |-> 0, rad |-> Dbl(0, <<18189, 6383, 29932, 151>>, -53),
     sin |-> Dbl(0, <<32019, 2083, 5026, 143>>, -53)],
    [n |-> 35, k |-> 0, rad |-> Dbl(0, <<23542, 788, 12501, 156>>, -53),
     sin |-> Dbl(0, <<18808, 28920, 27379, 146>>, -53)],
    [n |-> 36, k |-> 0, rad |-> Dbl(0, <<28896, 27961, 27837, 160>>, -53),
     sin |-> Dbl(0, <<23134, 2282, 15500, 150>>, -53)],
    [n |-> 37, k |-> 0, rad |-> Dbl(0, <<1482, 22367, 10406, 165>>, -53),
     sin |-> Dbl(0, <<16054, 10411, 2118, 154>>, -53)],
    [n |-> 38, k |-> 0, rad |-> Dbl(0, <<6836, 16772, 25743, 169>>, -53),
     sin |-> Dbl(0, <<18745, 25467, 19966, 157>>, -53)],
    [n |-> 39, k |-> 0, rad |-> Dbl(0, <<12189, 11177, 8312, 174>>, -53),
     sin |-> Dbl(0, <<31421, 2192, 3474, 161>>, -53)],
    [n |-> 40, k |-> 0, rad |-> Dbl(0, <<17543, 5582, 23649, 178>>, -53),
     sin |-> Dbl(0, <<5660, 9336, 18141, 164>>, -53)],
    [n |-> 41, k |-> 0, rad |-> Dbl(0, <<22897, 32755, 6217, 183>>, -53),
     sin |-> Dbl(0, <<20436, 624, 31166, 167>>, -53)],
    [n |-> 42, k |-> 0, rad |-> Dbl(0, <<28251, 27160, 21554, 187>>, -53),
     sin |-> Dbl(0, <<3032, 11716, 9746, 171>>, -53)],
    [n |-> 43, k |-> 0, rad |-> Dbl(0, <<837, 21566, 4123, 192>>, -53),
     sin |-> Dbl(0, <<7211, 29465, 19384, 174>>, -53)],
    [n |-> 44, k |-> 0, rad |-> Dbl(0, <<6190, 15971, 19460, 196>>, -53),
     sin |-> Dbl(0, <<29456, 25024, 27280, 177>>, -53)],
    [n |-> 449, k |-> 1, rad |-> Dbl(0, <<20839, 14212, 20156, 200>>, -53),
     sin |-> Dbl(0, <<14077, 29647, 23039, 180>>, -53)],
    [n |-> 4499, k |-> 2, rad |-> Dbl(0, <<5920, 7483, 565, 201>>, -53),
     sin |-> Dbl(0, <<1804, 8009, 32366, 180>>, -53)],
    [n |-> 45, k |-> 0, rad |-> Dbl(0, <<11544, 10376, 2029, 201>>, -53),
     sin |-> Dbl(0, <<15308, 19710, 633, 181>>, -53)],
    [n |-> 455, k |-> 1, rad |-> Dbl(0, <<30605, 23962, 9697, 203>>, -53),
     sin |-> Dbl(0, <<12102, 13886, 19402, 182>>, -53)],
    [n |-> 46, k |-> 0, rad |-> Dbl(0, <<16898, 4781, 17366, 205>>, -53),
     sin |-> Dbl(0, <<19768, 19786, 4947, 184>>, -53)],
    [n |-> 47, k |-> 0, rad |-> Dbl(0, <<22252, 31954, 32702, 209>>, -53),
     sin |-> Dbl(0, <<27010, 16784, 7423, 187>>, -53)],
    [n |-> 48, k |-> 0, rad |-> Dbl(0, <<27606, 26359, 15271, 214>>, -53),
     sin |-> Dbl(0, <<16066, 20583, 8030, 190>>, -53)],
    [n |-> 49, k |-> 0, rad |-> Dbl(0, <<191, 20765, 30608, 218>>, -53),
     sin |-> Dbl(0, <<7223, 26946, 6738, 193>>, -53)],
    [n |-> 50, k |-> 0, rad |-> Dbl(0, <<5545, 15170, 13177, 223>>, -53),
     sin |-> Dbl(0, <<20537, 17822, 3518, 196>>, -53)],
    [n |-> 51, k |-> 0, rad |-> Dbl(0, <<10899, 9575, 28514, 227>>, -53),
     sin |-> Dbl(0, <<9000, 27179, 31108, 198>>, -53)],
    [n |-> 52, k |-> 0, rad |-> Dbl(0, <<16253, 3980, 11083, 232>>, -53),
     sin |-> Dbl(0, <<25554, 10216, 23945, 201>>, -53)],
    [n |-> 53, k |-> 0, rad |-> Dbl(0, <<21606, 31153, 26419, 236>>, -53),
     sin |-> Dbl(0, <<31252, 7492, 14768, 204>>, -53)],
    [n |-> 54, k |-> 0, rad |-> Dbl(0, <<26960, 25558, 8988, 241>>, -53),
     sin |-> Dbl(0, <<29864, 14127, 3550, 207>>, -53)],
    [n |-> 55, k |-> 0, rad |-> Dbl(0, <<32314, 19963, 24325, 245>>, -53),
     sin |-> Dbl(0, <<1863, 12843, 23033, 209>>, -53)],
    [n |-> 56, k |-> 0, rad |-> Dbl(0, <<4900, 14369, 6894, 250>>, -53),
     sin |-> Dbl(0, <<28325, 6993, 7655, 212>>, -53)],
    [n |-> 57, k |-> 0, rad |-> Dbl(0, <<10254, 8774, 22231, 254>>, -53),
     sin |-> Dbl(0, <<12252, 20828, 22926, 214>>, -53)],
    [n |-> 58, k |-> 0, rad |-> Dbl(0, <<24188, 1589, 18784, 129>>, -52),
     sin |-> Dbl(0, <<10565, 1435, 3287, 217>>, -53)],
    [n |-> 59, k |-> 0, rad |-> Dbl(0, <<10481, 15176, 26452, 131>>, -52),
     sin |-> Dbl(0, <<27358, 15597, 14248, 219>>, -53)],
    [n |-> 60, k |-> 0, rad |-> Dbl(0, <<29541, 28762, 1352, 134>>, -52),
     sin |-> Dbl(0, <<19626, 20656, 23019, 221>>, -53)],
    [n |-> 61, k |-> 0, rad |-> Dbl(0, <<15834, 9581, 9021, 136>>, -52),
     sin |-> Dbl(0, <<14790, 28582, 29577, 223>>, -53)],
    [n |-> 62, k |-> 0, rad |-> Dbl(0, <<2127, 23168, 16689, 138>>, -52),
     sin |-> Dbl(0, <<9991, 7898, 1133, 226>>, -53)],
    [n |-> 63, k |-> 0, rad |-> Dbl(0, <<21188, 3986, 24358, 140>>, -52),
     sin |-> Dbl(0, <<11372, 14970, 3200, 228>>, -53)],
    [n |-> 64, k |-> 0, rad |-> Dbl(0, <<7481, 17573, 32026, 142>>, -52),
     sin |-> Dbl(0, <<14538, 30380, 2990, 230>>, -53)],
    [n |-> 65, k |-> 0, rad |-> Dbl(0, <<26542, 31159, 6926, 145>>, -52),
     sin |-> Dbl(0, <<22375, 24667, 484, 232>>, -53)],
    [n |-> 66, k |-> 0, rad |-> Dbl(0, <<12835, 11978, 14595, 147>>, -52),
     sin |-> Dbl(0, <<32661, 24062, 28430, 233>>, -53)],
    [n |-> 67, k |-> 0, rad |-> Dbl(0, <<31896, 25564, 22263, 149>>, -52),
     sin |-> Dbl(0, <<26223, 12376, 21274, 235>>, -53)],
    [n |-> 68, k |-> 0, rad |-> Dbl(0, <<18189, 6383, 29932, 151>>, -52),
     sin |-> Dbl(0, <<19288, 29487, 11765, 237>>, -53)],
    [n |-> 69, k |-> 0, rad |-> Dbl(0, <<4481, 19970, 4832, 154>>, -52),
     sin |-> Dbl(0, <<14341, 7679, 32656, 238>>, -53)],
    [n |-> 70, k |-> 0, rad |-> Dbl(0, <<23542, 788, 12501, 156>>, -52),
     sin |-> Dbl(0, <<11547, 1188, 18393, 240>>, -53)],
    [n |-> 71, k |-> 0, rad |-> Dbl(0, <<9835, 14375, 20169, 158>>, -52),
     sin |-> Dbl(0, <<13514, 22525, 1728, 242>>, -53)],
    [n |-> 72, k |-> 0, rad |-> Dbl(0, <<28896, 27961, 27837, 160>>, -52),
     sin |-> Dbl(0, <<21759, 9864, 15416, 243>>, -53)],
    [n |-> 73, k |-> 0, rad |-> Dbl(0, <<15189, 8780, 2738, 163>>, -52),
     sin |-> Dbl(0, <<23327, 23799, 26673, 244>>, -53)],
    [n |-> 74, k |-> 0, rad |-> Dbl(0, <<1482, 22367, 10406, 165>>, -52),
     sin |-> Dbl(0, <<31616, 18108, 2719, 246>>, -53)],
    [n |-> 75, k |-> 0, rad |-> Dbl(0, <<20543, 3185, 18075, 167>>, -52),
     sin |-> Dbl(0, <<16149, 3729, 9077, 247>>, -53)],
    [n |-> 76, k |-> 0, rad |-> Dbl(0, <<6836, 16772, 25743, 169>>, -52),
     sin |-> Dbl(0, <<14885, 16115, 12966, 248>>, -53)],
    [n |-> 77, k |-> 0, rad |-> Dbl(0, <<25897, 30358, 643, 172>>, -52),
     sin |-> Dbl(0, <<1807, 17053, 14376, 249>>, -53)],
    [n |-> 78, k |-> 0, rad |-> Dbl(0, <<12189, 11177, 8312, 174>>, -52),
     sin |-> Dbl(0, <<127, 25844, 13296, 250>>, -53)],
    [n |-> 79, k |-> 0, rad |-> Dbl(0, <<31250, 24763, 15980, 176>>, -52),
     sin |-> Dbl(0, <<14018, 21105, 9717, 251>>, -53)],
    [n |-> 80, k |-> 0, rad |-> Dbl(0, <<17543, 5582, 23649, 178>>, -52),
     sin |-> Dbl(0, <<7191, 6402, 3630, 252>>, -53)],
    [n |-> 81, k |-> 0, rad |-> Dbl(0, <<3836, 19169, 31317, 180>>, -52),
     sin |-> Dbl(0, <<25692, 10335, 27794, 252>>, -53)],
    [n |-> 82, k |-> 0, rad |-> Dbl(0, <<22897, 32755, 6217, 183>>, -52),
     sin |-> Dbl(0, <<5242, 21089, 16666, 253>>, -53)],
    [n |-> 83, k |-> 0, rad |-> Dbl(0, <<9190, 13574, 13886, 185>>, -52),
     sin |-> Dbl(0, <<16011, 19268, 3008, 254>>, -53)],
    [n |-> 84, k |-> 0, rad |-> Dbl(0, <<28251, 27160, 21554, 187>>, -52),
     sin |-> Dbl(0, <<26566, 10736, 19582, 254>>, -53)],
    [n |-> 85, k |-> 0, rad |-> Dbl(0, <<14544, 7979, 29223, 189>>, -52),
     sin |-> Dbl(0, <<5538, 26672, 846, 255>>, -53)],
    [n |-> 86, k |-> 0, rad |-> Dbl(0, <<837, 21566, 4123, 192>>, -52),
     sin |-> Dbl(0, <<32758, 25313, 12333, 255>>, -53)],
    [n |-> 87, k |-> 0, rad |-> Dbl(0, <<19897, 2384, 11792, 194>>, -52),
     sin |-> Dbl(0, <<26141, 23077, 21271, 255>>, -53)],
    [n |-> 88, k |-> 0, rad |-> Dbl(0, <<6190, 15971, 19460, 196>>, -52),
     sin |-> Dbl(0, <<1383, 29054, 27657, 255>>, -53)],
    [n |-> 89, k |-> 0, rad |-> Dbl(0, <<25251, 29557, 27128, 198>>, -52),
     sin |-> Dbl(0, <<12170, 12267, 31490, 255>>, -53)],
    [n |-> 895, k |-> 1, rad |-> Dbl(0, <<2014, 3583, 30963, 199>>, -52),
     sin |-> Dbl(0, <<18893, 19251, 32448, 255>>, -53)],
    [n |-> 899, k |-> 1, rad |-> Dbl(0, <<16192, 28678, 27476, 200>>, -52),
     sin |-> Dbl(0, <<3684, 7321, 32755, 255>>, -53)],
    [n |-> 8999, k |-> 2, rad |-> Dbl(0, <<25116, 8929, 1297, 201>>, -52),
     sin |-> Dbl(0, <<12127, 28581, 32767, 255>>, -53)],
    [n |-> 89999999, k |-> 6, rad |-> Dbl(0, <<19335, 7977, 2029, 201>>, -52),
     sin |-> Dbl(0, <<32767, 32767, 32767, 255>>, -53)],
    [n |-> 899999991, k |-> 7, rad |-> Dbl(0, <<15278, 8217, 2029, 201>>, -52),
     sin |-> Dbl(0, <<32767, 32767, 32767, 255>>, -53)],
    [n |-> 899999999, k |-> 7, rad |-> Dbl(0, <<15600, 10136, 2029, 201>>, -52),
     sin |-> Dbl(0, <<0, 0, 0, 128>>, -52)],
    [n |-> 90, k |-> 0, rad |-> Dbl(0, <<11544, 10376, 2029, 201>>, -52),
     sin |-> Dbl(0, <<0, 0, 0, 128>>, -52)]
  >>

Angle(n, k) == [n |-> n, k |-> k]

Angles == {Angle(LibmTable[i].n, LibmTable[i].k) : i \in 1..Len(LibmTable)}

\* The slider's values are Python ints: whole degrees.
IntAngle(v) == Angle(v, 0)

\* -1, 0, 1 as the angle p is below, equal to or above q, in exact arithmetic.
AngleCmp(p, q) ==
  LET sp == IF p.n < 0 THEN -1 ELSE IF p.n > 0 THEN 1 ELSE 0
      sq == IF q.n < 0 THEN -1 ELSE IF q.n > 0 THEN 1 ELSE 0
      ap == BigMul(NatToBig(sp * p.n), BigPow10(q.k))
      aq == BigMul(NatToBig(sq * q.n), BigPow10(p.k))
  IN  IF sp # sq THEN (IF sp < sq THEN -1 ELSE 1)
      ELSE sp * BigCmp(ap, aq)

AngleLess(p, q) == AngleCmp(p, q) < 0

\* Mutant: degrees turned into radians with pi / 90 for pi / 180.
math_radians_Twice(phi_deg) ==
  LibmTable[CHOOSE i \in 1..Len(LibmTable) :
              LibmTable[i].n = 2 * phi_deg.n /\ LibmTable[i].k = phi_deg.k].rad

math_radians(phi_deg) ==
  LibmTable[CHOOSE i \in 1..Len(LibmTable) :
              LibmTable[i].n = phi_deg.n /\ LibmTable[i].k = phi_deg.k].rad

math_sin(x) ==
  LibmTable[CHOOSE i \in 1..Len(LibmTable) : LibmTable[i].rad = x].sin

(***************************************************************************)
(* rankine_earth_pressures, line by line.  A line either yields the float  *)
(* it assigns or raises: Python's float division raises ZeroDivisionError  *)
(* on a zero divisor.                                                      *)
(***************************************************************************)
None == <<>>

Some(v) == <<v>>

Raised(e) == [kind |-> "raise", exc |-> e]

Value(v) == [kind |-> "value", val |-> v]

Returned(v) == [kind |-> "return", val |-> v]

\* Mutant: a division that follows IEEE-754 and yields an infinity, here a
\* sign and an exponent above every float's, on a zero divisor.
FInf(s) == Dbl(s, <<>>, 1024)

PyTrueDiv_IEEE(x, y) ==
  IF FIsZero(y) THEN Value(FInf((x.sign + y.sign) % 2)) ELSE Value(FDiv(x, y))

\* x / y of two Python floats
PyTrueDiv(x, y) ==
  IF FIsZero(y) THEN Raised("ZeroDivisionError") ELSE Value(FDiv(x, y))

\* Mutant: Ka with numerator and denominator exchanged.
Line17_Ka_Inverted(phi_rad) ==
  PyTrueDiv(FAdd(FOne, math_sin(phi_rad)), FSub(FOne, math_sin(phi_rad)))

\* Mutant: the denominator of Ka with the sign of the numerator.
Line17_Ka_SameSign(phi_rad) ==
  PyTrueDiv(FSub(FOne, math_sin(phi_rad)), FSub(FOne, math_sin(phi_rad)))

\* line 17: Ka = (1 - math.sin(phi_rad)) / (1 + math.sin(phi_rad))
Line17_Ka(phi_rad) ==
  PyTrueDiv(FSub(FOne, math_sin(phi_rad)), FAdd(FOne, math_sin(phi_rad)))

\* Mutant: Kp computed by the formula of Ka.
Line20_Kp_Swapped(phi_rad) ==
  PyTrueDiv(FSub(FOne, math_sin(phi_rad)), FAdd(FOne, math_sin(phi_rad)))

\* line 20: Kp = (1 + math.sin(phi_rad)) / (1 - math.sin(phi_rad))
Line20_Kp(phi_rad) ==
  PyTrueDiv(FAdd(FOne, math_sin(phi_rad)), FSub(FOne, math_sin(phi_rad)))

\* Mutant: Ko with the sign of the sine turned.
Line23_Ko_Plus(phi_rad) == FAdd(FOne, math_sin(phi_rad))

\* Mutant: Ko without the "1 -".
Line23_Ko_NoOne(phi_rad) == math_sin(phi_rad)

\* line 23: Ko = 1 - math.sin(phi_rad)
Line23_Ko(phi_rad) == FSub(FOne, math_sin(phi_rad))

\* line 25: return {"Ka": Ka, "Kp": Kp, "Ko": Ko}
Line25_dict(Ka, Kp, Ko) == [Ka |-> Ka, Kp |-> Kp, Ko |-> Ko]

\* The whole call: what it returns, or the exception that leaves it.
rankine_earth_pressures(phi_deg) ==
  LET phi_rad == math_radians(phi_deg)
      Ka == Line17_Ka(phi_rad)
      Kp == Line20_Kp(phi_rad)
      Ko == Line23_Ko(phi_rad)
  IN  IF Ka.kind = "raise" THEN Ka
      ELSE IF Kp.kind = "raise" THEN Kp
      ELSE Returned(Line25_dict(Ka.val, Kp.val, Ko))

(***************************************************************************)
(* State.  A call of rankine_earth_pressures: pc is the line about to run, *)
(* phi_deg its argument, phi_rad, Ka, Kp, Ko its locals (None until        *)
(* assigned), result what left the call (None while it runs).  log keeps   *)
(* the calls that ended, oldest first, when logCap > 0.  The page of one   *)
(* session: input_phi the slider's value, coefficients the value the       *)
(* reactive calc get_coefficients holds (None when invalidated), text what *)
(* each output shows, pending the outputs invalidated and not yet          *)
(* rendered again.                                                         *)
(***************************************************************************)
VARIABLES pc, phi_deg, phi_rad, Ka, Kp, Ko, result, log, angles, logCap,
          input_phi, coefficients, text, pending

callVars == <<pc, phi_deg, phi_rad, Ka, Kp, Ko, result, log, angles, logCap>>

pageVars == <<input_phi, coefficients, text, pending>>

vars == <<pc, phi_deg, phi_rad, Ka, Kp, Ko, result, log, angles, logCap,
          input_phi, coefficients, text, pending>>

\* The calls a run keeps in log, at most.
MaxCalls == 3

\* The angles of the runs that keep a log: the ends of the domain, the
\* angles next to them, and ordinary ones.
LoggedAngles ==
  {Angle(0, 0), Angle(1, 15), Angle(30, 0), Angle(89999999, 6),
   Angle(899999991, 7), Angle(899999999, 7), Angle(90, 0)}

SliderMin == 0

SliderMax == 45

SliderValue == 30

SliderStep == 1

SliderValues ==
  {v \in SliderMin..SliderMax : (v - SliderMin) % SliderStep = 0}

Outputs == {"explanation", "ka_value", "ko_value", "kp_value"}

InitPage ==
  /\ input_phi = SliderValue
  /\ coefficients = None
  /\ text = [o \in Outputs |-> None]
  /\ pending = Outputs

InitCall ==
  /\ pc = "idle"
  /\ phi_deg = Angle(0, 0)
  /\ phi_rad = None
  /\ Ka = None
  /\ Kp = None
  /\ Ko = None
  /\ result = None
  /\ log = <<>>

(***************************************************************************)
(* The call, one line at a step.                                           *)
(***************************************************************************)
Logged(r) ==
  IF logCap > 0 THEN Append(log, [phi |-> phi_deg, result |-> r]) ELSE log

\* rankine_earth_pressures(a) is entered.
Call(a) ==
  /\ pc \in {"idle", "done"}
  /\ logCap = 0 \/ Len(log) < logCap
  /\ pc' = "L14"
  /\ phi_deg' = a
  /\ phi_rad' = None
  /\ Ka' = None
  /\ Kp' = None
  /\ Ko' = None
  /\ result' = None
  /\ UNCHANGED <<log, angles, logCap>>
  /\ UNCHANGED pageVars

Line14 ==
  /\ pc = "L14"
  /\ phi_rad' = Some(math_radians(phi_deg))
  /\ pc' = "L17"
  /\ UNCHANGED <<phi_deg, Ka, Kp, Ko, result, log, angles, logCap>>
  /\ UNCHANGED pageVars

Line17 ==
  /\ pc = "L17"
  /\ \E o \in {Line17_Ka(phi_rad[1])} :
       IF o.kind = "raise"
       THEN /\ result' = o
            /\ log' = Logged(o)
            /\ pc' = "done"
            /\ UNCHANGED Ka
       ELSE /\ Ka' = Some(o.val)
            /\ pc' = "L20"
            /\ UNCHANGED <<result, log>>
  /\ UNCHANGED <<phi_deg, phi_rad, Kp, Ko, angles, logCap>>
  /\ UNCHANGED pageVars

Line20 ==
  /\ pc = "L20"
  /\ \E o \in {Line20_Kp(phi_rad[1])} :
       IF o.kind = "raise"
       THEN /\ result' = o
            /\ log' = Logged(o)
            /\ pc' = "done"
            /\ UNCHANGED Kp
       ELSE /\ Kp' = Some(o.val)
            /\ pc' = "L23"
            /\ UNCHANGED <<result, log>>
  /\ UNCHANGED <<phi_deg, phi_rad, Ka, Ko, angles, logCap>>
  /\ UNCHANGED pageVars

\* Mutant: a sine that accumulates over the calls in a module-level variable,
\* so that Ko depends on the call before.
Line23_Accumulating ==
  /\ pc = "L23"
  /\ Ko' = Some(FSub(Line23_Ko(phi_rad[1]),
                     IF log = <<>> THEN FZero
                     ELSE math_sin(math_radians(log[Len(log)].phi))))
  /\ pc' = "L25"
  /\ UNCHANGED <<phi_deg, phi_rad, Ka, Kp, result, log, angles, logCap>>
  /\ UNCHANGED pageVars

Line23 ==
  /\ pc = "L23"
  /\ Ko' = Some(Line23_Ko(phi_rad[1]))
  /\ pc' = "L25"
  /\ UNCHANGED <<phi_deg, phi_rad, Ka, Kp, result, log, angles, logCap>>
  /\ UNCHANGED pageVars

Line25 ==
  /\ pc = "L25"
  /\ \E r \in {Returned(Line25_dict(Ka[1], Kp[1], Ko[1]))} :
       /\ result' = r
       /\ log' = Logged(r)
  /\ pc' = "done"
  /\ UNCHANGED <<phi_deg, phi_rad, Ka, Kp, Ko, angles, logCap>>
  /\ UNCHANGED pageVars

NextCall ==
  \/ \E a \in angles : Call(a)
  \/ Line14
  \/ Line17
  \/ Line20
  \/ Line23
  \/ Line25

\* Calls with any angle of the table, each on its own.
InitCalc == InitCall /\ InitPage /\ angles = Angles /\ logCap = 0

SpecCalc == InitCalc /\ [][NextCall]_vars

\* Two calls, both kept, with any two angles of the table strictly between 0
\* and 90 degrees.
InitPairs ==
  /\ InitCall
  /\ InitPage
  /\ angles = {a \in Angles : AngleLess(Angle(0, 0), a) /\ AngleLess(a, Angle(90, 0))}
  /\ logCap = 2

SpecPairs == InitPairs /\ [][NextCall]_vars

\* Up to MaxCalls calls in any order, all kept.
InitLogged == InitCall /\ InitPage /\ angles = LoggedAngles /\ logCap = MaxCalls

SpecLogged == InitLogged /\ [][NextCall]_vars

(***************************************************************************)
(* The page.  A change of the slider is one message of the session: it     *)
(* sets input.phi, which invalidates what read it (get_coefficients and    *)
(* explanation, and through get_coefficients the three value outputs);     *)
(* the flush that follows renders every invalidated output, in no fixed    *)
(* order, before the session takes its next message.                       *)
(***************************************************************************)
Shown(v) == [kind |-> "text", val |-> v]

ShownError == [kind |-> "error"]

\* get_coefficients(): the value the calc holds, computed from input.phi()
\* when it holds none.  An exception of the call is held and raised again.
get_coefficients ==
  IF coefficients = None
  THEN rankine_earth_pressures(IntAngle(input_phi))
  ELSE coefficients[1]

\* f"{get_coefficients()[field]:.4f}", or the error an exception leaves shown.
FormatField(c, field) ==
  IF c.kind = "return" THEN Shown(Format4f(c.val[field])) ELSE ShownError

\* A render function that reads get_coefficients() runs.
RenderValue(o, field) ==
  /\ o \in pending
  /\ \E c \in {get_coefficients} :
       /\ coefficients' = Some(c)
       /\ text' = [text EXCEPT ![o] = Some(FormatField(c, field))]
  /\ pending' = pending \ {o}
  /\ UNCHANGED input_phi
  /\ UNCHANGED callVars

ka_value == RenderValue("ka_value", "Ka")

ko_value == RenderValue("ko_value", "Ko")

kp_value == RenderValue("kp_value", "Kp")

\* f"Results for soil with phi = {phi}:", kept as the phi it shows.
explanation ==
  /\ "explanation" \in pending
  /\ text' = [text EXCEPT !["explanation"] = Some(Shown(input_phi))]
  /\ pending' = pending \ {"explanation"}
  /\ UNCHANGED <<input_phi, coefficients>>
  /\ UNCHANGED callVars

\* Mutant: a change of the slider that leaves get_coefficients valid.
SetPhi_KeepsCoefficients(v) ==
  /\ pending = {}
  /\ v # input_phi
  /\ input_phi' = v
  /\ pending' = Outputs
  /\ UNCHANGED <<text, coefficients>>
  /\ UNCHANGED callVars

\* The user moves the slider to v.
SetPhi(v) ==
  /\ pending = {}
  /\ v # input_phi
  /\ input_phi' = v
  /\ coefficients' = None
  /\ pending' = Outputs
  /\ UNCHANGED text
  /\ UNCHANGED callVars

NextPage ==
  \/ \E v \in SliderValues : SetPhi(v)
  \/ ka_value
  \/ ko_value
  \/ kp_value
  \/ explanation

InitApp == InitCall /\ InitPage /\ angles = {} /\ logCap = 0

Spec == InitApp /\ [][NextPage]_vars

(***************************************************************************)
(* Properties.                                                             *)
(***************************************************************************)
Fields == {"Ka", "Kp", "Ko"}

Deg(n) == Angle(n, 0)

\* phi lies strictly between lo and hi whole degrees.
Between(lo, phi, hi) == AngleLess(Deg(lo), phi) /\ AngleLess(phi, Deg(hi))

\* The call has ended by returning a dict.
HasReturned == pc = "done" /\ result.kind = "return"

IsFloat(f) == f.man = <<>> \/ BigBitLen(f.man) = MantBits

\* The size of one unit in the last place of the float f
Ulp(f) == Dbl(0, <<1>>, f.exp)

XTwo == Dbl(0, <<2>>, 0)

\* f is a float nearest to the exact number v: 2 |f - v| <= ulp(f)
NearestTo(f, v) ==
  IsFloat(f) /\ XCmp(XMul(XTwo, XAbs(XSub(f, v))), Ulp(f)) <= 0

\* f is a float nearest to the exact quotient x / y, stated without a
\* division: 2 |f y - x| <= ulp(f) |y|
NearestQuotient(f, x, y) ==
  /\ IsFloat(f)
  /\ XCmp(XMul(XTwo, XAbs(XSub(XMul(f, y), x))), XMul(Ulp(f), XAbs(y))) <= 0

\* C1: a call that returns gives a dict of exactly Ka, Kp and Ko which, with
\* s the float math.sin gives for the angle in radians, are the floats of
\* (1 - s) / (1 + s), (1 + s) / (1 - s) and 1 - s: Ko the float nearest to
\* 1 - s, and Ka and Kp the floats nearest to the quotients of Ko and the
\* float nearest to 1 + s, one way and the other.
C1_Formulas ==
  HasReturned =>
    LET s    == math_sin(math_radians(phi_deg))
        plus == FAdd(FOne, s)
    IN  /\ DOMAIN result.val = Fields
        /\ NearestTo(result.val.Ko, XSub(FOne, s))
        /\ NearestTo(plus, XAdd(FOne, s))
        /\ NearestQuotient(result.val.Ka, result.val.Ko, plus)
        /\ NearestQuotient(result.val.Kp, plus, result.val.Ko)

\* A call at 30 degrees has returned; its sine is not exactly 1/2, so that the
\* three coefficients are rounded results.
C1_Witness ==
  /\ HasReturned
  /\ phi_deg = Deg(30)
  /\ math_sin(math_radians(phi_deg)) # Dbl(0, BigPow2(MantBits - 1), -MantBits)

\* C2: a call at 90 or at -90 degrees ends by raising ZeroDivisionError, and
\* returns no dict.
C2_ErrorAtRightAngle ==
  (pc = "done" /\ phi_deg \in {Deg(90), Deg(-90)}) =>
    result = Raised("ZeroDivisionError")

\* A call at -90 degrees has ended: the division of line 17 failed, so that
\* Ka was never assigned.
C2_Witness == pc = "done" /\ phi_deg = Deg(-90) /\ Ka = None

\* C3: a call ends with a complete dict or with an error and no dict, nothing
\* is returned while it runs, and the error happens at 90 and -90 degrees
\* only: every angle strictly between them gives a complete dict.
C3_AllOrNothing ==
  /\ pc # "done" => result = None
  /\ pc = "done" =>
       \/ result.kind = "return" /\ DOMAIN result.val = Fields
       \/ result.kind = "raise" /\ phi_deg \in {Deg(90), Deg(-90)}
  /\ (pc = "done" /\ Between(-90, phi_deg, 90)) => result.kind = "return"

\* C4: for an angle from 0 up to, not including, 90 degrees the product of
\* the returned Ka and Kp, taken exactly, is within 10^-9 of 1.
C4_Product ==
  (HasReturned /\ (phi_deg = Deg(0) \/ Between(0, phi_deg, 90))) =>
    XCmp(XMul(XAbs(XSub(XMul(result.val.Ka, result.val.Kp), FOne)),
              Dbl(0, NatToBig(1000000000), 0)),
         FOne) <= 0

\* A call at 45 degrees has returned, and the product of its Ka and Kp is
\* not exactly 1: the tolerance is used.
C4_Witness ==
  /\ HasReturned
  /\ phi_deg = Deg(45)
  /\ XCmp(XMul(result.val.Ka, result.val.Kp), FOne) # 0

\* C5: for an angle strictly between 0 and 90 degrees the returned
\* coefficients satisfy 0 < Ka < 1, Kp > 1 and 0 < Ko < 1.
C5_Ranges ==
  (HasReturned /\ Between(0, phi_deg, 90)) =>
    /\ XCmp(FZero, result.val.Ka) < 0
    /\ XCmp(result.val.Ka, FOne) < 0
    /\ XCmp(result.val.Kp, FOne) > 0
    /\ XCmp(FZero, result.val.Ko) < 0
    /\ XCmp(result.val.Ko, FOne) < 0

\* C5 as the floats have it: the bounds at 1 are reached, by all three
\* coefficients at once, when the sine is at most 2^-54 and is lost in
\* 1 - sin and 1 + sin; they are strict for every larger sine.
C5_RangesRounded ==
  (HasReturned /\ Between(0, phi_deg, 90)) =>
    LET s     == math_sin(math_radians(phi_deg))
        small == XCmp(s, Dbl(0, <<1>>, -(MantBits + 1))) <= 0
    IN  /\ XCmp(FZero, result.val.Ka) < 0
        /\ XCmp(FZero, result.val.Ko) < 0
        /\ IF small
           THEN \A f \in Fields : result.val[f] = FOne
           ELSE /\ XCmp(result.val.Ka, FOne) < 0
                /\ XCmp(result.val.Kp, FOne) > 0
                /\ XCmp(result.val.Ko, FOne) < 0

\* A call at 1e-15 degrees has returned Ka = 1.0.
C5_Witness == HasReturned /\ phi_deg = Angle(1, 15) /\ result.val.Ka = FOne

\* C6: of two calls that returned, with angles phi1 < phi2 strictly between 0
\* and 90 degrees, the first has the larger Ka and the smaller Kp.
C6_Monotone ==
  \A i, j \in DOMAIN log :
    ( /\ log[i].result.kind = "return"
      /\ log[j].result.kind = "return"
      /\ AngleLess(Deg(0), log[i].phi)
      /\ AngleLess(log[i].phi, log[j].phi)
      /\ AngleLess(log[j].phi, Deg(90)) ) =>
      /\ XCmp(log[i].result.val.Ka, log[j].result.val.Ka) > 0
      /\ XCmp(log[i].result.val.Kp, log[j].result.val.Kp) < 0

\* C6 as the floats have it: the first call's Ka is not below the second's
\* and its Kp not above.
C6_MonotoneRounded ==
  \A i, j \in DOMAIN log :
    ( /\ log[i].result.kind = "return"
      /\ log[j].result.kind = "return"
      /\ AngleLess(Deg(0), log[i].phi)
      /\ AngleLess(log[i].phi, log[j].phi)
      /\ AngleLess(log[j].phi, Deg(90)) ) =>
      /\ XCmp(log[i].result.val.Ka, log[j].result.val.Ka) >= 0
      /\ XCmp(log[i].result.val.Kp, log[j].result.val.Kp) <= 0

\* Calls at 89.999999 and then at 89.9999991 degrees have returned the same
\* Ka and the same Kp.
C6_Witness ==
  /\ Len(log) = 2
  /\ log[1].phi = Angle(89999999, 6)
  /\ log[2].phi = Angle(899999991, 7)
  /\ log[1].result.kind = "return"
  /\ log[1].result = log[2].result

\* C7: a call at 0 degrees returns Ka = Kp = Ko = 1.0, each of which is
\* shown as 1.0000.
C7_AtZero ==
  (pc = "done" /\ phi_deg = Deg(0)) =>
    /\ result = Returned([Ka |-> FOne, Kp |-> FOne, Ko |-> FOne])
    /\ \A f \in Fields : Format4f(result.val[f]) = NatToBig(10000)

C7_Witness == pc = "done" /\ phi_deg = Deg(0) /\ result # None

\* C8: any two calls with the same angle ended the same way, with the same
\* dict or the same error, whatever was called before them and in between.
C8_SameAngleSameResult ==
  \A i, j \in DOMAIN log :
    log[i].phi = log[j].phi => log[i].result = log[j].result

\* Two calls with one angle have ended, with a call at another angle between.
C8_Witness ==
  /\ Len(log) = 3
  /\ log[1].phi = log[3].phi
  /\ log[2].phi # log[1].phi

\* C9: on the page the slider holds a whole number from 0 to 45, neither
\* 1 + sin(phi) nor 1 - sin(phi) is zero for it, get_coefficients never holds
\* an error and no output shows one.
C9_NoDivisionByZero ==
  LET s == math_sin(math_radians(IntAngle(input_phi)))
  IN  /\ input_phi \in 0..45
      /\ ~FIsZero(FAdd(FOne, s))
      /\ ~FIsZero(FSub(FOne, s))
      /\ coefficients # None =>
           coefficients[1].kind = "return" /\ DOMAIN coefficients[1].val = Fields
      /\ \A o \in Outputs : text[o] # None => text[o][1].kind = "text"

\* The slider has been moved to its highest value and the coefficients have
\* been computed for it.
C9_Witness == input_phi = 45 /\ coefficients # None

\* C10: when no output is left to render, the three value outputs show Ka, Ko
\* and Kp of rankine_earth_pressures at the slider's value, to 4 decimals,
\* and the explanation shows the slider's value.
C10_OutputsAgree ==
  pending = {} =>
    LET r == rankine_earth_pressures(IntAngle(input_phi))
    IN  /\ r.kind = "return"
        /\ text["ka_value"] = Some(Shown(Format4f(r.val.Ka)))
        /\ text["ko_value"] = Some(Shown(Format4f(r.val.Ko)))
        /\ text["kp_value"] = Some(Shown(Format4f(r.val.Kp)))
        /\ text["explanation"] = Some(Shown(input_phi))

\* The slider has been moved away from its first value and every output has
\* been rendered again.
C10_Witness == pending = {} /\ input_phi # SliderValue

=============================================================================
